---------------------------- MODULE Spec2Model ----------------------------
(***************************************************************************)
(* A model of cthru.py, the CTHRU command-line client: one invocation of   *)
(* the program from the parsed command line to the process exit, and the   *)
(* pure functions build_query, format_table, format_csv and the snapshot   *)
(* filename sanitisation.                                                  *)
(*                                                                         *)
(* Python values are represented as follows.                               *)
(*   str            a TLA+ string                                          *)
(*   int            an integer                                             *)
(*   float          an integer n standing for the float n.0 (FloatStr)     *)
(*   None / value   the option tuples <<>> and <<value>>                   *)
(*   dict           a sequence of <<key, value>> pairs in insertion order  *)
(*   JSON scalar    a tagged record, see JStr, JInt, JNull                 *)
(***************************************************************************)
EXTENDS Integers, Sequences, FiniteSets, TLC

VARIABLES
    pc,          \* position of the invocation in main() / the command
    argv,        \* the options of the command line, in the order given
    args,        \* the argparse Namespace
    params,      \* RemoteParams of this invocation
    data,        \* the records returned by fetch_data
    stdout,      \* one entry per print() to standard output
    stderr,      \* one entry per print() to standard error
    files,       \* path -> text, every Path(...).write_text of the run
    wrapped,     \* the wrapped_data objects handed to json.dumps
    request,     \* the URLs requested from the remote API, in order
    response,    \* None, or what the remote API answered to the request
    exit_code,   \* <<>> while running, <<n>> once the process has exited
    table,       \* internals of the last format_table call
    result       \* value of the pure function under test

vars == << pc, argv, args, params, data, stdout, stderr, files,
           wrapped, request, response, exit_code, table, result >>

-----------------------------------------------------------------------------
(* Python values *)

None == << >>
Some(v) == << v >>
IsNone(o) == o = << >>
Val(o) == o[1]

\* truthiness of an optional str: None and "" are false
TruthyStr(o) == o # None /\ Val(o) # ""
\* truthiness of an optional int: None and 0 are false
TruthyInt(o) == o # None /\ Val(o) # 0

\* str() of a float holding a whole number: 100000.0 -> "100000.0"
FloatStr(n) == ToString(n) \o ".0"

\* dict: ordered sequence of <<key, value>>
DictKeys(d) == [i \in 1..Len(d) |-> d[i][1]]
HasKey(d, k) == \E i \in 1..Len(d) : d[i][1] = k
DictGet(d, k, default) ==
    IF HasKey(d, k) THEN d[CHOOSE i \in 1..Len(d) : d[i][1] = k][2]
    ELSE default
DictSet(d, k, v) ==
    IF HasKey(d, k)
    THEN [i \in 1..Len(d) |-> IF d[i][1] = k THEN <<k, v>> ELSE d[i]]
    ELSE Append(d, <<k, v>>)

RECURSIVE Join(_, _)
\* sep.join(parts); recursion on halves of the list
Join(sep, parts) ==
    IF parts = << >> THEN ""
    ELSE IF Len(parts) = 1 THEN parts[1]
    ELSE LET h == Len(parts) \div 2
         IN  Join(sep, SubSeq(parts, 1, h)) \o sep
                 \o Join(sep, SubSeq(parts, h + 1, Len(parts)))

\* c in s, for a one-character c
Contains(s, c) == \E i \in 1..Len(s) : SubSeq(s, i, i) = c

\* the two halves of a string of two or more characters; the character-wise
\* functions below recurse on halves
Left(s) == SubSeq(s, 1, Len(s) \div 2)
Right(s) == SubSeq(s, (Len(s) \div 2) + 1, Len(s))

-----------------------------------------------------------------------------
(* Configuration *)

API_BASE == "https://cthru.data.socrata.com/resource"

DATASETS ==
    << <<"spending", [id |-> "pegc-naaa", name |-> "Comptroller Spending",
            description |-> "Vendor payments and department expenditures"]>>,
       <<"payroll", [id |-> "9ttk-7vz6", name |-> "Commonwealth Payroll",
            description |-> "State employee salaries and compensation"]>>,
       <<"settlements", [id |-> "gpqz-7ppn", name |-> "Settlements & Judgments",
            description |-> "Legal settlement payments"]>>,
       <<"revenue", [id |-> "kcy7-ivxi", name |-> "Revenue Collections",
            description |-> "Tax and non-tax revenue"]>>,
       <<"retirement", [id |-> "pni4-392n", name |-> "Retirement Benefits",
            description |-> "Pension and retirement data"]>>,
       <<"quasi_payroll", [id |-> "tc5d-8ckm", name |-> "Quasi-Government Payroll",
            description |-> "MBTA, Massport, etc. payroll"]>>,
       <<"quasi_financials", [id |-> "j7hg-9qyq", name |-> "Quasi-Government Financials",
            description |-> "Quasi-government spending"]>>,
       <<"new_hires", [id |-> "pnz5-htzq", name |-> "New Hires",
            description |-> "New state employee data"]>>,
       <<"stabilization", [id |-> "5v4s-nq74", name |-> "Stabilization Fund",
            description |-> "Rainy day fund activity"]>> >>

DatasetId(key) == DictGet(DATASETS, key, [id |-> ""]).id

-----------------------------------------------------------------------------
(* main(): the argument parser *)

\* add_common_args: the defaults of the options every data command takes
CommonDefaults ==
    [limit |-> 100, offset |-> None, format |-> "table", output |-> None,
     search |-> None, sort |-> None, url |-> FALSE, save_json |-> FALSE]

\* the Namespace of a command before any option is read
Defaults(cmd) ==
    CASE cmd = "spending" ->
           [command |-> Some(cmd), year |-> None, dept |-> None,
            vendor |-> None, fund |-> None,
            min_amount |-> None, max_amount |-> None] @@ CommonDefaults
      [] cmd = "payroll" ->
           [command |-> Some(cmd), year |-> None, dept |-> None,
            name |-> None,
            min_amount |-> None, max_amount |-> None] @@ CommonDefaults
      [] cmd \in {"settlements", "revenue"} ->
           [command |-> Some(cmd)] @@ CommonDefaults
      [] cmd = "datasets" ->
           [command |-> Some(cmd), info |-> None]
      [] OTHER -> [command |-> None]

hasattr(a, f) == f \in DOMAIN a

RECURSIVE ApplyOptions(_, _)
\* each option stores its value under its dest; a repeated option overwrites
ApplyOptions(ns, opts) ==
    IF opts = << >> THEN ns
    ELSE ApplyOptions([ns EXCEPT ![opts[1][1]] = opts[1][2]], Tail(opts))

parse_args(cmd, opts) == ApplyOptions(Defaults(cmd), opts)

-----------------------------------------------------------------------------
(* build_query *)

year_clause(a, dataset_key) ==
    IF TruthyStr(a.year) /\ dataset_key = "spending"
    THEN << "budget_fiscal_year = '" \o Val(a.year) \o "'" >>
    ELSE << >>

\* payroll declares --year with type=int
year_clause_payroll(a, dataset_key) ==
    IF TruthyInt(a.year) /\ dataset_key = "payroll"
    THEN << "year = " \o ToString(Val(a.year)) >>
    ELSE << >>

dept_clause(a, dataset_key) ==
    IF TruthyStr(a.dept)
    THEN CASE dataset_key = "spending" ->
                << "upper(department) like upper('%" \o Val(a.dept) \o "%')" >>
           [] dataset_key = "payroll" ->
                << "upper(department_division) like upper('%" \o Val(a.dept) \o "%')" >>
           [] OTHER -> << >>
    ELSE << >>

vendor_clause(a) ==
    IF hasattr(a, "vendor") /\ TruthyStr(a.vendor)
    THEN << "upper(vendor) like upper('%" \o Val(a.vendor) \o "%')" >>
    ELSE << >>

fund_clause(a) ==
    IF hasattr(a, "fund") /\ TruthyStr(a.fund)
    THEN << "upper(fund) like upper('%" \o Val(a.fund) \o "%')" >>
    ELSE << >>

min_amount_clause(a, dataset_key) ==
    IF hasattr(a, "min_amount") /\ a.min_amount # None
    THEN CASE dataset_key = "spending" ->
                << "amount >= " \o FloatStr(Val(a.min_amount)) >>
           [] dataset_key = "payroll" ->
                << "pay_total_actual >= " \o FloatStr(Val(a.min_amount)) >>
           [] OTHER -> << >>
    ELSE << >>

max_amount_clause(a, dataset_key) ==
    IF hasattr(a, "max_amount") /\ a.max_amount # None
    THEN CASE dataset_key = "spending" ->
                << "amount <= " \o FloatStr(Val(a.max_amount)) >>
           [] dataset_key = "payroll" ->
                << "pay_total_actual <= " \o FloatStr(Val(a.max_amount)) >>
           [] OTHER -> << >>
    ELSE << >>

name_clause(a) ==
    IF hasattr(a, "name") /\ TruthyStr(a.name)
    THEN << "(upper(name_first) like upper('%" \o Val(a.name)
            \o "%') OR upper(name_last) like upper('%" \o Val(a.name) \o "%'))" >>
    ELSE << >>

search_clause(a, dataset_key) ==
    IF TruthyStr(a.search)
    THEN CASE dataset_key = "spending" ->
                << "(upper(vendor) like upper('%" \o Val(a.search)
                   \o "%') OR upper(department) like upper('%" \o Val(a.search) \o "%'))" >>
           [] dataset_key = "payroll" ->
                << "(upper(name_first) like upper('%" \o Val(a.search)
                   \o "%') OR upper(name_last) like upper('%" \o Val(a.search)
                   \o "%') OR upper(department_division) like upper('%" \o Val(a.search) \o "%'))" >>
           [] OTHER -> << >>
    ELSE << >>

\* where_clauses with the department clause appended after the vendor clause
where_clauses_vendor_first(a, dataset_key) ==
    (IF dataset_key = "payroll" THEN year_clause_payroll(a, dataset_key)
                                ELSE year_clause(a, dataset_key))
    \o vendor_clause(a)
    \o dept_clause(a, dataset_key)
    \o fund_clause(a)
    \o min_amount_clause(a, dataset_key)
    \o max_amount_clause(a, dataset_key)
    \o name_clause(a)
    \o search_clause(a, dataset_key)

\* where_clauses after the last append, in the order the code appends
where_clauses(a, dataset_key) ==
    (IF dataset_key = "payroll" THEN year_clause_payroll(a, dataset_key)
                                ELSE year_clause(a, dataset_key))
    \o dept_clause(a, dataset_key)
    \o vendor_clause(a)
    \o fund_clause(a)
    \o min_amount_clause(a, dataset_key)
    \o max_amount_clause(a, dataset_key)
    \o name_clause(a)
    \o search_clause(a, dataset_key)

\* limit_offset sending the parser's default limit whatever --limit says
limit_offset_default_limit(a) ==
    LET p1 == DictSet(<< >>, "$limit", ToString(CommonDefaults.limit))
    IN  IF TruthyInt(a.offset)
        THEN DictSet(p1, "$offset", ToString(Val(a.offset)))
        ELSE p1

\* $limit, then $offset when truthy
limit_offset(a) ==
    LET p1 == DictSet(<< >>, "$limit", ToString(a.limit))
    IN  IF TruthyInt(a.offset)
        THEN DictSet(p1, "$offset", ToString(Val(a.offset)))
        ELSE p1

build_query(a, dataset_key) ==
    LET p2 == limit_offset(a)
        wc == where_clauses(a, dataset_key)
        p3 == IF wc # << >> THEN DictSet(p2, "$where", Join(" AND ", wc)) ELSE p2
    IN  IF TruthyStr(a.sort) THEN DictSet(p3, "$order", Val(a.sort)) ELSE p3

-----------------------------------------------------------------------------
(* urllib.parse.urlencode *)

Unreserved ==
    "abcdefghijklmnopqrstuvwxyzABCDEFGHIJKLMNOPQRSTUVWXYZ0123456789_.-~"

\* percent-escapes of the reserved ASCII characters
PctTable ==
    << <<"$", "%24">>, <<"'", "%27">>, <<"(", "%28">>, <<")", "%29">>,
       <<"%", "%25">>, <<"=", "%3D">>, <<">", "%3E">>, <<"<", "%3C">>,
       <<",", "%2C">>, <<":", "%3A">>, <<"\"", "%22">>, <<"&", "%26">>,
       <<"/", "%2F">>, <<"\n", "%0A">>, <<"+", "%2B">>, <<"?", "%3F">>,
       <<"#", "%23">>, <<";", "%3B">>, <<"@", "%40">>, <<"!", "%21">>,
       <<"*", "%2A">>, <<"|", "%7C">> >>

quote_plus_char(c) ==
    IF Contains(Unreserved, c) THEN c
    ELSE IF c = " " THEN "+"
    ELSE DictGet(PctTable, c, "%3F")

RECURSIVE quote_plus(_)
quote_plus(s) ==
    IF Len(s) = 0 THEN ""
    ELSE IF Len(s) = 1 THEN quote_plus_char(s)
    ELSE quote_plus(Left(s)) \o quote_plus(Right(s))

urlencode(d) ==
    Join("&", [i \in 1..Len(d) |-> quote_plus(d[i][1]) \o "=" \o quote_plus(d[i][2])])

\* {k: v for k, v in params.items() if k != "$limit"}
without_limit(d) == SelectSeq(d, LAMBDA kv : kv[1] # "$limit")

\* the api_url both generate_socrata_url and the snapshot wrapper build;
\* id_text is the dataset id as the f-string renders it, p an optional dict
api_url_of(id_text, p) ==
    LET base == "https://cthru.data.socrata.com/resource/" \o id_text \o ".json"
    IN  IF p # None /\ Val(p) # << >> /\ without_limit(Val(p)) # << >>
        THEN base \o "?" \o urlencode(without_limit(Val(p)))
        ELSE base

portal_url_of(id_text) == "https://cthru.data.socrata.com/d/" \o id_text

generate_socrata_url(dataset_id, p) ==
    api_url_of(dataset_id, Some(p)) \o "\n               Portal: "
        \o portal_url_of(dataset_id)

\* the URL fetch_data requests
fetch_url(dataset_id, p) ==
    LET url == API_BASE \o "/" \o dataset_id \o ".json"
    IN  IF p # << >> THEN url \o "?" \o urlencode(p) ELSE url

-----------------------------------------------------------------------------
(* Records: a record is a dict field name -> JSON scalar *)

JStr(x) == [t |-> "str", s |-> x, n |-> 0]
JInt(x) == [t |-> "int", s |-> "", n |-> x]
JNull == [t |-> "null", s |-> "", n |-> 0]

\* str(value)
Str(v) ==
    CASE v.t = "str" -> v.s
      [] v.t = "int" -> ToString(v.n)
      [] OTHER -> "None"

\* str(row.get(col, ""))
get_str(row, col) == IF HasKey(row, col) THEN Str(DictGet(row, col, JNull)) ELSE ""

SetMin(S) == CHOOSE x \in S : \A y \in S : x <= y
SetMax(S) == CHOOSE x \in S : \A y \in S : x >= y
Min(a, b) == IF a <= b THEN a ELSE b
Max(a, b) == IF a >= b THEN a ELSE b

\* s[:n]
Prefix(s, n) == IF Len(s) <= n THEN s ELSE SubSeq(s, 1, n)
\* seq[:n] for a list
Take(seq, n) == IF Len(seq) <= n THEN seq ELSE SubSeq(seq, 1, n)

RECURSIVE Repeat(_, _)
Repeat(c, n) ==
    IF n <= 0 THEN ""
    ELSE IF n = 1 THEN c
    ELSE Repeat(c, n \div 2) \o Repeat(c, n - (n \div 2))

\* s.ljust(w)
ljust(s, w) == s \o Repeat(" ", w - Len(s))

-----------------------------------------------------------------------------
(* format_table *)

MaxWidth == 40       \* the truncation length and the cap on a column width
SampleRows == 50     \* the rows that widths are computed from
MaxCols == 8         \* the columns shown when no column list is supplied

\* columns is an optional list; an empty list is falsy
table_cols(d, columns) ==
    IF columns # None /\ Val(columns) # << >>
    THEN SelectSeq(Val(columns), LAMBDA c : HasKey(d[1], c))
    ELSE Take(DictKeys(d[1]), MaxCols)

\* max_len after the loop over the sampled rows for one column
max_len_of(rows, col) ==
    SetMax({ Len(col) } \cup
           { Len(Prefix(get_str(rows[i], col), MaxWidth)) : i \in 1..Len(rows) })

col_width(d, col) == Min(max_len_of(Take(d, SampleRows), col), MaxWidth)

\* one cell of the header line
header_cell(col, w) == Prefix(ljust(col, w), w)

\* row_cell padding the value without truncating it
row_cell_untruncated(row, col, w) == ljust(get_str(row, col), w)

\* one cell of a data line
row_cell(row, col, w) == ljust(Prefix(get_str(row, col), w), w)

\* cols, widths and the cells of every line format_table builds
table_parts(d, columns) ==
    LET cols == table_cols(d, columns)
        widths == [j \in 1..Len(cols) |-> col_width(d, cols[j])]
    IN  [cols |-> cols,
         widths |-> widths,
         header |-> [j \in 1..Len(cols) |-> header_cell(cols[j], widths[j])],
         separator |-> [j \in 1..Len(cols) |-> Repeat("-", widths[j])],
         rows |-> [i \in 1..Len(d) |->
                     [j \in 1..Len(cols) |-> row_cell(d[i], cols[j], widths[j])]]]

NoTable == [cols |-> << >>, widths |-> << >>, header |-> << >>,
            separator |-> << >>, rows |-> << >>]

\* what format_table computes before it joins the lines
table_of(d, columns) == IF d = << >> THEN NoTable ELSE table_parts(d, columns)

format_table(d, columns) ==
    IF d = << >> THEN "No results found."
    ELSE LET t == table_parts(d, columns)
         IN  Join("\n", << Join(" | ", t.header), Join("-+-", t.separator) >>
                        \o [i \in 1..Len(d) |-> Join(" | ", t.rows[i])])

-----------------------------------------------------------------------------
(* format_csv *)

RECURSIVE replace_quote(_)
\* val.replace('"', '""')
replace_quote(s) ==
    IF Len(s) = 0 THEN ""
    ELSE IF Len(s) = 1 THEN (IF s = "\"" THEN "\"\"" ELSE s)
    ELSE replace_quote(Left(s)) \o replace_quote(Right(s))

\* csv_value quoting without doubling the embedded quotes
csv_value_no_doubling(row, col) ==
    LET val == get_str(row, col)
    IN  IF Contains(val, ",") \/ Contains(val, "\"") \/ Contains(val, "\n")
        THEN "\"" \o val \o "\""
        ELSE val

\* one value as format_csv writes it
csv_value(row, col) ==
    LET val == replace_quote(get_str(row, col))
    IN  IF Contains(val, ",") \/ Contains(val, "\"") \/ Contains(val, "\n")
        THEN "\"" \o val \o "\""
        ELSE val

format_csv(d) ==
    IF d = << >> THEN ""
    ELSE LET cols == DictKeys(d[1])
         IN  Join("\n", << Join(",", cols) >>
                        \o [i \in 1..Len(d) |->
                              Join(",", [j \in 1..Len(cols) |-> csv_value(d[i], cols[j])])])

-----------------------------------------------------------------------------
(* snapshot filename sanitisation *)

NameLen == 20

WordChars ==
    "abcdefghijklmnopqrstuvwxyzABCDEFGHIJKLMNOPQRSTUVWXYZ0123456789_"

RECURSIVE sub_nonword(_)
\* re.sub(r'[^\w]', '_', s)
sub_nonword(s) ==
    IF Len(s) = 0 THEN ""
    ELSE IF Len(s) = 1 THEN (IF Contains(WordChars, s) THEN s ELSE "_")
    ELSE sub_nonword(Left(s)) \o sub_nonword(Right(s))

\* the positions of s that do not hold the character c
Keep(s, c) == { i \in 1..Len(s) : SubSeq(s, i, i) # c }

lstrip(s, c) == IF Keep(s, c) = {} THEN "" ELSE SubSeq(s, SetMin(Keep(s, c)), Len(s))
rstrip(s, c) == IF Keep(s, c) = {} THEN "" ELSE SubSeq(s, 1, SetMax(Keep(s, c)))

\* s.strip(c)
strip(s, c) == rstrip(lstrip(s, c), c)

\* sanitize stripping before it truncates
sanitize_strip_first(s) == Prefix(strip(sub_nonword(s), "_"), NameLen)

\* re.sub(r'[^\w]', '_', s)[:20].strip('_')
sanitize(s) == strip(Prefix(sub_nonword(s), NameLen), "_")

-----------------------------------------------------------------------------
(* json.dumps(..., indent=2) *)

RECURSIVE json_escape(_)
json_escape(s) ==
    IF Len(s) = 0 THEN ""
    ELSE IF Len(s) = 1
         THEN (CASE s = "\"" -> "\\\""
                 [] s = "\\" -> "\\\\"
                 [] s = "\n" -> "\\n"
                 [] OTHER -> s)
    ELSE json_escape(Left(s)) \o json_escape(Right(s))

json_string(s) == "\"" \o json_escape(s) \o "\""

json_scalar(v) ==
    CASE v.t = "str" -> json_string(v.s)
      [] v.t = "int" -> ToString(v.n)
      [] OTHER -> "null"

\* a dict of scalars whose opening brace sits at indentation ind
json_record(rec, ind) ==
    IF rec = << >> THEN "{}"
    ELSE "{\n"
         \o Join(",\n", [i \in 1..Len(rec) |->
                Repeat(" ", ind + 2) \o json_string(rec[i][1]) \o ": "
                    \o json_scalar(rec[i][2])])
         \o "\n" \o Repeat(" ", ind) \o "}"

\* a list of records whose opening bracket sits at indentation ind
json_list(d, ind) ==
    IF d = << >> THEN "[]"
    ELSE "[\n"
         \o Join(",\n", [i \in 1..Len(d) |->
                Repeat(" ", ind + 2) \o json_record(d[i], ind + 2)])
         \o "\n" \o Repeat(" ", ind) \o "]"

\* json.dumps(wrapped_data, indent=2)
json_wrapped(w) ==
    "{\n  \"api_url\": " \o json_string(w.api_url)
    \o ",\n  \"portal_url\": "
    \o (IF w.portal_url = None THEN "null" ELSE json_string(Val(w.portal_url)))
    \o ",\n  \"query_timestamp\": " \o json_string(w.query_timestamp)
    \o ",\n  \"record_count\": " \o ToString(w.record_count)
    \o ",\n  \"data\": " \o json_list(w.data, 2)
    \o "\n}"

-----------------------------------------------------------------------------
(* output_results *)

\* the readings datetime.now() can return: strftime and isoformat renderings
Clock ==
    { [stamp |-> "20240101_120000", iso |-> "2024-01-01T12:00:00.000001"],
      [stamp |-> "20240101_120001", iso |-> "2024-01-01T12:00:01.000002"] }

\* f"{dataset_id}" of an optional dataset id
id_text(dataset_id) == IF dataset_id = None THEN "None" ELSE Val(dataset_id)

\* the parts of the snapshot filename that come from the filters
filter_parts(a) ==
    (IF hasattr(a, "year")
     THEN (IF a.command = Some("payroll")
           THEN (IF TruthyInt(a.year) THEN << "fy" \o ToString(Val(a.year)) >> ELSE << >>)
           ELSE (IF TruthyStr(a.year) THEN << "fy" \o Val(a.year) >> ELSE << >>))
     ELSE << >>)
    \o (IF hasattr(a, "vendor") /\ TruthyStr(a.vendor) THEN << sanitize(Val(a.vendor)) >> ELSE << >>)
    \o (IF hasattr(a, "fund") /\ TruthyStr(a.fund) THEN << sanitize(Val(a.fund)) >> ELSE << >>)
    \o (IF hasattr(a, "dept") /\ TruthyStr(a.dept) THEN << sanitize(Val(a.dept)) >> ELSE << >>)
    \o (IF hasattr(a, "name") /\ TruthyStr(a.name) THEN << sanitize(Val(a.name)) >> ELSE << >>)
    \o (IF hasattr(a, "search") /\ TruthyStr(a.search) THEN << sanitize(Val(a.search)) >> ELSE << >>)

snapshot_name(a, stamp) ==
    Join("_", << Val(a.command) >> \o filter_parts(a) \o << stamp >>) \o ".json"

\* the metadata wrapper; dataset_id and p are optional
wrapped_data(d, dataset_id, p, iso) ==
    [api_url |-> api_url_of(id_text(dataset_id), p),
     portal_url |-> IF dataset_id # None /\ Val(dataset_id) # ""
                    THEN Some(portal_url_of(Val(dataset_id))) ELSE None,
     query_timestamp |-> iso,
     record_count |-> Len(d),
     data |-> d]

render(d, a, default_columns) ==
    CASE a.format = "json" -> json_list(d, 0)
      [] a.format = "csv" -> format_csv(d)
      [] OTHER -> format_table(d, default_columns)

\* the line printed for --url; url is optional
url_lines(a, url) ==
    IF hasattr(a, "url") /\ a.url /\ TruthyStr(url)
    THEN << "\nView in browser: " \o Val(url) >>
    ELSE << >>

\* deliver printing the rendered text and the count line also when it
\* writes the output file
deliver_also_prints(d, a, default_columns, url, dataset_id, p) ==
    \E c1, c2 \in Clock :
         LET save == hasattr(a, "save_json") /\ a.save_json
             json_file == snapshot_name(a, c1.stamp)
             w == wrapped_data(d, dataset_id, p, c2.iso)
             files1 == IF save THEN DictSet(files, json_file, json_wrapped(w)) ELSE files
             out1 == IF save THEN << "JSON saved to " \o json_file >> ELSE << >>
             output == render(d, a, default_columns)
             to_file == TruthyStr(a.output)
             out2 == (IF to_file
                      THEN << "Results saved to " \o Val(a.output) \o " ("
                              \o ToString(Len(d)) \o " records)" >>
                      ELSE << >>)
                     \o << output, "\n--- " \o ToString(Len(d)) \o " records ---" >>
         IN  /\ wrapped' = IF save THEN Append(wrapped, [file |-> json_file] @@ w)
                           ELSE wrapped
             /\ files' = IF to_file THEN DictSet(files1, Val(a.output), output) ELSE files1
             /\ stdout' = stdout \o out1 \o out2 \o url_lines(a, url)
             /\ table' = IF a.format \notin { "json", "csv" }
                         THEN table_of(d, default_columns) ELSE table
             /\ result' = Some(output)

\* output_results after the early return for an empty result
deliver(d, a, default_columns, url, dataset_id, p) ==
    \E c1, c2 \in Clock :
         LET save == hasattr(a, "save_json") /\ a.save_json
             json_file == snapshot_name(a, c1.stamp)
             w == wrapped_data(d, dataset_id, p, c2.iso)
             files1 == IF save THEN DictSet(files, json_file, json_wrapped(w)) ELSE files
             out1 == IF save THEN << "JSON saved to " \o json_file >> ELSE << >>
             output == render(d, a, default_columns)
             to_file == TruthyStr(a.output)
             out2 == IF to_file
                     THEN << "Results saved to " \o Val(a.output) \o " ("
                             \o ToString(Len(d)) \o " records)" >>
                     ELSE << output, "\n--- " \o ToString(Len(d)) \o " records ---" >>
         IN  /\ wrapped' = IF save THEN Append(wrapped, [file |-> json_file] @@ w)
                           ELSE wrapped
             /\ files' = IF to_file THEN DictSet(files1, Val(a.output), output) ELSE files1
             /\ stdout' = stdout \o out1 \o out2 \o url_lines(a, url)
             /\ table' = IF a.format \notin { "json", "csv" }
                         THEN table_of(d, default_columns) ELSE table
             /\ result' = Some(output)

\* output_results without the early return
output_results_no_early_return(d, a, default_columns, url, dataset_id, p) ==
    deliver(d, a, default_columns, url, dataset_id, p)

output_results(d, a, default_columns, url, dataset_id, p) ==
    IF d = << >>
    THEN /\ stdout' = Append(stdout, "No results found.")
         /\ UNCHANGED << files, wrapped, table, result >>
    ELSE deliver(d, a, default_columns, url, dataset_id, p)

-----------------------------------------------------------------------------
(* The remote API *)

Rec1 == << <<"vendor", JStr("ACME, INC")>>, <<"amount", JStr("12.50")>>,
           <<"note", JNull>> >>
Rec2 == << <<"vendor", JStr("B \"Q\" CO")>>, <<"amount", JInt(7)>> >>

\* the record lists a successful fetch can return
ResultSets == { << >>, << Rec1 >>, << Rec1, Rec2 >> }

\* what urlopen can do: return a JSON array, raise HTTPError, raise URLError
Responses ==
    { [kind |-> "ok", code |-> 200, reason |-> "OK", body |-> "",
       is_json |-> FALSE, message |-> None, data |-> d] : d \in ResultSets }
    \cup
    { [kind |-> "http", code |-> 400, reason |-> "Bad Request", body |-> b.body,
       is_json |-> b.is_json, message |-> b.message, data |-> << >>] :
         b \in { [body |-> "", is_json |-> FALSE, message |-> None],
                 [body |-> "<html>bad</html>", is_json |-> FALSE, message |-> None],
                 [body |-> "{\"message\": \"no such column\"}", is_json |-> TRUE,
                  message |-> Some("no such column")],
                 [body |-> "{\"code\": 1}", is_json |-> TRUE, message |-> None] } }
    \cup
    { [kind |-> "url", code |-> 0, reason |-> "timed out", body |-> "",
       is_json |-> FALSE, message |-> None, data |-> << >>] }

ErrorBodyLen == 200

\* the lines fetch_data prints to standard error for a failed request
fetch_error_lines(r) ==
    IF r.kind = "http"
    THEN << "Error: HTTP " \o ToString(r.code) \o " - " \o r.reason >>
         \o (IF r.body = "" THEN << >>
             ELSE IF r.is_json
                  THEN << "  " \o (IF r.message # None THEN Val(r.message) ELSE r.body) >>
                  ELSE << "  " \o Prefix(r.body, ErrorBodyLen) >>)
    ELSE << "Error: Connection failed - " \o r.reason >>

\* fetch_data: a failed request prints and exits with status 1
\* the exit status fetch_data leaves the process with: sys.exit(1) in both
\* handlers, 0 when it returns and the command runs to its end
\* fetch_data printing the error and returning instead of exiting
fetch_exit_status_zero(r) == 0

fetch_exit_status(r) == IF r.kind = "ok" THEN 0 ELSE 1

fetch_data(dataset_id, p, r) ==
    /\ request' = Append(request, fetch_url(dataset_id, p))
    /\ response' = Some(r)
    /\ exit_code' = Some(fetch_exit_status(r))
    /\ IF r.kind = "ok"
       THEN /\ data' = r.data
            /\ UNCHANGED stderr
       ELSE /\ stderr' = stderr \o fetch_error_lines(r)
            /\ UNCHANGED data

\* the process has exited inside fetch_data: nothing more is written
exited_in_fetch == UNCHANGED << stdout, files, wrapped, table, result >>

MetaColumns ==
    << [fieldName |-> "vendor", dataTypeName |-> "text", description |-> "Payee"],
       [fieldName |-> "amount", dataTypeName |-> "number", description |-> ""] >>

\* what the metadata request can do: return an object with or without a
\* columns array, or raise
MetaResponses ==
    { [ok |-> TRUE, has_columns |-> TRUE, columns |-> MetaColumns, error |-> ""],
      [ok |-> TRUE, has_columns |-> FALSE, columns |-> << >>, error |-> ""],
      [ok |-> FALSE, has_columns |-> FALSE, columns |-> << >>,
       error |-> "HTTP Error 404: Not Found"],
      [ok |-> FALSE, has_columns |-> FALSE, columns |-> << >>,
       error |-> "<urlopen error timed out>"] }

metadata_url(dataset_id) ==
    "https://cthru.data.socrata.com/api/views/" \o dataset_id \o ".json"

\* what fetch_metadata prints to standard error
fetch_metadata_lines(m) ==
    IF m.ok THEN << >> ELSE << "Error fetching metadata: " \o m.error >>

-----------------------------------------------------------------------------
(* The commands *)

SpendingCols == << "vendor", "department", "amount", "date",
                   "budget_fiscal_year", "object_class" >>
PayrollCols == << "name_first", "name_last", "department_division",
                  "position_title", "pay_total_actual", "year" >>

\* the url argument cmd_spending and cmd_payroll pass to output_results
url_arg(a, dataset_id, p) ==
    IF hasattr(a, "url") /\ a.url THEN Some(generate_socrata_url(dataset_id, p))
    ELSE None

cmd_spending ==
    /\ pc = "spending"
    /\ LET p == build_query(args, "spending")
           dataset_id == DatasetId("spending")
       IN  /\ params' = p
           /\ \E r \in Responses :
                 /\ fetch_data(dataset_id, p, r)
                 /\ IF r.kind = "ok"
                    THEN output_results(r.data, args, Some(SpendingCols),
                                        url_arg(args, dataset_id, p),
                                        Some(dataset_id), Some(p))
                    ELSE exited_in_fetch
    /\ pc' = "exit"
    /\ UNCHANGED << argv, args >>

cmd_payroll ==
    /\ pc = "payroll"
    /\ LET p == build_query(args, "payroll")
           dataset_id == DatasetId("payroll")
       IN  /\ params' = p
           /\ \E r \in Responses :
                 /\ fetch_data(dataset_id, p, r)
                 /\ IF r.kind = "ok"
                    THEN output_results(r.data, args, Some(PayrollCols),
                                        url_arg(args, dataset_id, p),
                                        Some(dataset_id), Some(p))
                    ELSE exited_in_fetch
    /\ pc' = "exit"
    /\ UNCHANGED << argv, args >>

\* the params cmd_settlements and cmd_revenue build themselves
reduced_params(a) ==
    LET p1 == limit_offset(a)
    IN  IF TruthyStr(a.search) THEN DictSet(p1, "$q", Val(a.search)) ELSE p1

cmd_settlements ==
    /\ pc = "settlements"
    /\ LET p == reduced_params(args)
       IN  /\ params' = p
           /\ \E r \in Responses :
                 /\ fetch_data(DatasetId("settlements"), p, r)
                 /\ IF r.kind = "ok"
                    THEN output_results(r.data, args, None, None, None, None)
                    ELSE exited_in_fetch
    /\ pc' = "exit"
    /\ UNCHANGED << argv, args >>

cmd_revenue ==
    /\ pc = "revenue"
    /\ LET p == reduced_params(args)
       IN  /\ params' = p
           /\ \E r \in Responses :
                 /\ fetch_data(DatasetId("revenue"), p, r)
                 /\ IF r.kind = "ok"
                    THEN output_results(r.data, args, None, None, None, None)
                    ELSE exited_in_fetch
    /\ pc' = "exit"
    /\ UNCHANGED << argv, args >>

DescriptionLen == 80
KeyPad == 18

\* the lines printed for the columns of a metadata object
column_lines(m) ==
    IF m.ok /\ m.has_columns
    THEN << "\n  Columns (" \o ToString(Len(m.columns)) \o "):" >>
         \o [i \in 1..Len(m.columns) |->
               "    - " \o m.columns[i].fieldName \o " ("
                   \o m.columns[i].dataTypeName \o ")"
               \o (IF m.columns[i].description # ""
                   THEN "\n        " \o Prefix(m.columns[i].description, DescriptionLen)
                   ELSE "")]
    ELSE << >>

RECURSIVE listing_lines(_)
listing_lines(ds) ==
    IF ds = << >> THEN << >>
    ELSE << "  " \o ljust(ds[1][1], KeyPad) \o " " \o ds[1][2].name,
            "                     " \o ds[1][2].description,
            "" >>
         \o listing_lines(Tail(ds))

cmd_datasets ==
    /\ pc = "datasets"
    /\ pc' = "exit"
    /\ IF TruthyStr(args.info)
       THEN IF ~HasKey(DATASETS, Val(args.info))
            THEN /\ stdout' = stdout \o
                       << "Unknown dataset: " \o Val(args.info),
                          "Available: " \o Join(", ", DictKeys(DATASETS)) >>
                 /\ exit_code' = Some(1)
                 /\ UNCHANGED << request, response, stderr >>
            ELSE \E m \in MetaResponses :
                 LET ds == DictGet(DATASETS, Val(args.info), [id |-> ""])
                 IN  /\ request' = Append(request, metadata_url(ds.id))
                     /\ response' = Some(m)
                     /\ stderr' = stderr \o fetch_metadata_lines(m)
                     /\ stdout' = stdout \o
                           << "\n" \o ds.name \o " (" \o Val(args.info) \o ")",
                              "  ID: " \o ds.id,
                              "  Description: " \o ds.description >>
                           \o column_lines(m)
                     /\ exit_code' = Some(0)
       ELSE /\ stdout' = stdout \o << "\nAvailable Datasets:\n" >>
                  \o listing_lines(DATASETS)
                  \o << "Use 'cthru datasets --info <name>' to see columns for a dataset." >>
            /\ exit_code' = Some(0)
            /\ UNCHANGED << request, response, stderr >>
    /\ UNCHANGED << argv, args, params, data, files, wrapped, table, result >>

Usage == "usage: cthru [-h] {spending,payroll,settlements,revenue,datasets} ..."

\* main() up to the call of args.func
main ==
    /\ pc = "main"
    /\ LET a == parse_args(IF argv.cmd = None THEN "" ELSE Val(argv.cmd), argv.opts)
       IN  /\ args' = a
           /\ IF a.command = None
              THEN /\ stdout' = Append(stdout, Usage)
                   /\ exit_code' = Some(1)
                   /\ pc' = "exit"
              ELSE /\ pc' = Val(a.command)
                   /\ UNCHANGED << stdout, exit_code >>
    /\ UNCHANGED << argv, params, data, stderr, files, wrapped, request, response,
                    table, result >>

-----------------------------------------------------------------------------
(* Command lines *)

\* an option that is absent (<<>>) or given with a value (<<v>>)
Opt(dest, choice) == IF choice = << >> THEN << >> ELSE << <<dest, choice[1]>> >>
Given(S) == { << >> } \cup { << v >> : v \in S }

MaxRot == 1     \* the orders the filters are given in: rotations 0..MaxRot, and reversed

RECURSIVE Flatten(_)
Flatten(ss) == IF ss = << >> THEN << >> ELSE Head(ss) \o Flatten(Tail(ss))

Rotate(seq, k) == [i \in 1..Len(seq) |-> seq[((i - 1 + k) % Len(seq)) + 1]]
Reverse(seq) == [i \in 1..Len(seq) |-> seq[Len(seq) + 1 - i]]

\* the option slots in every order the model gives them in
Orderings(slots) ==
    { Flatten(Rotate(slots, k)) : k \in 0..MaxRot } \cup { Flatten(Reverse(slots)) }

LimitChoices == Given({ -5, 0, 50 })
OffsetChoices == Given({ Some(0), Some(10) })

\* spending with every combination of its filters, in several orders
SpendingFilterLines ==
    UNION { Orderings(<< Opt("year", year), Opt("dept", dept), Opt("vendor", vendor),
                         Opt("fund", fund), Opt("min_amount", lo),
                         Opt("max_amount", hi), Opt("search", search) >>) :
        year \in Given({ Some("2024") }),
        dept \in Given({ Some("POLICE") }),
        vendor \in Given({ Some("W. B MASON"), Some("") }),
        fund \in Given({ Some("opioid") }),
        lo \in Given({ Some(0), Some(100000) }),
        hi \in Given({ Some(200000) }),
        search \in Given({ Some("construction") }) }

\* payroll with every combination of its filters
PayrollFilterLines ==
    { Opt("year", year) \o Opt("dept", dept) \o Opt("name", name)
      \o Opt("min_amount", lo) \o Opt("max_amount", hi) \o Opt("search", search)
      \o Opt("sort", sort) :
        year \in Given({ Some(2025), Some(0) }),
        dept \in Given({ Some("Police") }),
        name \in Given({ Some("O'Neil") }),
        lo \in Given({ Some(100000) }),
        hi \in Given({ Some(200000) }),
        search \in Given({ Some("smith") }),
        sort \in Given({ Some("pay_total_actual:desc") }) }

\* the options every data command takes
CommonLines ==
    { Opt("limit", limit) \o Opt("offset", offset) \o Opt("format", format)
      \o Opt("output", output) \o Opt("search", search) \o Opt("url", url)
      \o Opt("save_json", save) :
        limit \in LimitChoices,
        offset \in OffsetChoices,
        format \in Given({ "json", "csv" }),
        output \in Given({ Some("out.txt"), Some("") }),
        search \in Given({ Some("a b/c") }),
        url \in Given({ TRUE }),
        save \in Given({ TRUE }) }

DatasetsLines ==
    { Opt("info", info) : info \in Given({ Some("spending"), Some("stabilization"),
                                           Some("bogus"), Some("") }) }

CommandLines ==
    { [cmd |-> Some("spending"), opts |-> o] : o \in SpendingFilterLines }
    \cup { [cmd |-> Some("spending"), opts |-> o] :
             o \in Orderings(<< Opt("vendor", Some(Some("W. B MASON"))),
                                Opt("year", Some(Some("2024"))),
                                Opt("limit", Some(50)) >>) }
    \cup { [cmd |-> Some("payroll"), opts |-> o] : o \in PayrollFilterLines }
    \cup { [cmd |-> Some(c), opts |-> o] :
             c \in { "spending", "payroll", "settlements", "revenue" },
             o \in CommonLines }
    \cup { [cmd |-> Some("spending"), opts |-> << <<"vendor", Some("ACME & Sons, Inc. (Boston)")>>,
                                                  <<"save_json", TRUE>> >> \o o] :
             o \in { << >>, << <<"url", TRUE>> >> } }
    \cup { [cmd |-> Some("datasets"), opts |-> o] : o \in DatasetsLines }
    \cup { [cmd |-> None, opts |-> << >>] }

Init ==
    /\ pc = "main"
    /\ argv \in CommandLines
    /\ args = [command |-> None]
    /\ params = << >>
    /\ data = << >>
    /\ stdout = << >>
    /\ stderr = << >>
    /\ files = << >>
    /\ wrapped = << >>
    /\ request = << >>
    /\ response = None
    /\ exit_code = None
    /\ table = NoTable
    /\ result = None

Next ==
    \/ main
    \/ cmd_spending
    \/ cmd_payroll
    \/ cmd_settlements
    \/ cmd_revenue
    \/ cmd_datasets

Spec == Init /\ [][Next]_vars

-----------------------------------------------------------------------------
(* format_table on its own *)

ExtraRows == 2      \* rows beyond the width sample
OverWidth == 2      \* characters beyond the width cap

RowCounts == { 1, 2, SampleRows } \cup { SampleRows + k : k \in 1..ExtraRows }
ValueLens == { 0, 1, MaxWidth - 1, MaxWidth } \cup { MaxWidth + k : k \in 1..OverWidth }
ColumnNames == { "", "v", Repeat("h", MaxWidth + OverWidth) }

\* n records under the column name: the sampled rows hold values of length
\* la, the later rows values of length lb; only the first record has the
\* field "opt" when sparse, and every third record holds a null under it
TableData(n, name, la, lb, sparse) ==
    [i \in 1..n |->
        << <<name, JStr(Repeat("x", IF i <= SampleRows THEN la ELSE lb))>> >>
        \o (IF sparse /\ i > 1 THEN << >>
            ELSE << <<"opt", IF i % 3 = 0 THEN JNull ELSE JInt(i)>> >>)]

InitTable ==
    /\ pc = "format_table"
    /\ \E n \in RowCounts, name \in ColumnNames, la \in ValueLens, lb \in ValueLens,
          sparse \in BOOLEAN :
          data = TableData(n, name, la, lb, sparse)
    /\ \E name \in ColumnNames :
          args \in { [columns |-> None], [columns |-> Some(<< >>)],
                     [columns |-> Some(<< "opt", "absent", name >>)] }
    /\ argv = << >> /\ params = << >> /\ stdout = << >> /\ stderr = << >>
    /\ files = << >> /\ wrapped = << >> /\ request = << >> /\ response = None
    /\ exit_code = None /\ table = NoTable /\ result = None

format_table_call ==
    /\ pc = "format_table"
    /\ table' = table_of(data, args.columns)
    /\ result' = Some(format_table(data, args.columns))
    /\ pc' = "table_done"
    /\ UNCHANGED << argv, args, params, data, stdout, stderr, files, wrapped,
                    request, response, exit_code >>

NextTable == format_table_call

SpecTable == InitTable /\ [][NextTable]_vars

-----------------------------------------------------------------------------
(* format_csv on its own *)

MaxCsvLen == 2      \* longest string value of a record

CsvAlphabet == { "a", ",", "\"", "\n" }

RECURSIVE StringsUpTo(_, _)
StringsUpTo(A, n) ==
    IF n = 0 THEN { "" }
    ELSE LET S == StringsUpTo(A, n - 1)
         IN  S \cup { x \o c : x \in S, c \in A }

CsvValues == { JStr(x) : x \in StringsUpTo(CsvAlphabet, MaxCsvLen) }
             \cup { JNull, JInt(12) }

InitCsv ==
    /\ pc = "format_csv"
    /\ \E v \in CsvValues, w \in CsvValues :
          data \in { << << <<"a", v>> >> >>,
                     << << <<"a", v>>, <<"b", w>> >> >>,
                     << << <<"a", v>> >>, << <<"a", w>> >> >>,
                     << << <<"a", v>>, <<"b", w>> >>, << <<"b", v>> >> >> }
    /\ args = [command |-> None]
    /\ argv = << >> /\ params = << >> /\ stdout = << >> /\ stderr = << >>
    /\ files = << >> /\ wrapped = << >> /\ request = << >> /\ response = None
    /\ exit_code = None /\ table = NoTable /\ result = None

format_csv_call ==
    /\ pc = "format_csv"
    /\ result' = Some(format_csv(data))
    /\ pc' = "csv_done"
    /\ UNCHANGED << argv, args, params, data, stdout, stderr, files, wrapped,
                    request, response, exit_code, table >>

NextCsv == format_csv_call

SpecCsv == InitCsv /\ [][NextCsv]_vars

-----------------------------------------------------------------------------
(* the filename sanitisation on its own *)

MaxEdge == 2        \* free characters at either end of a filter value

SanAlphabet == { "a", "_", "-" }
FillLens == { 0 } \cup ((NameLen - MaxEdge - 1)..(NameLen + 1))

InitSanitize ==
    /\ pc = "sanitize"
    /\ \E head \in StringsUpTo(SanAlphabet, MaxEdge),
          last \in StringsUpTo(SanAlphabet, MaxEdge),
          c \in SanAlphabet, k \in FillLens :
          args = [command |-> Some("spending"),
                  vendor |-> Some(head \o Repeat(c, k) \o last)]
    /\ result = << >>
    /\ argv = << >> /\ params = << >> /\ data = << >> /\ stdout = << >>
    /\ stderr = << >> /\ files = << >> /\ wrapped = << >> /\ request = << >>
    /\ response = None /\ exit_code = None /\ table = NoTable

\* vendor_clean = re.sub(...)[:20].strip('_')
sanitize_call ==
    /\ pc = "sanitize"
    /\ result' = << sanitize(Val(args.vendor)) >>
    /\ pc' = "sanitized"
    /\ UNCHANGED << argv, args, params, data, stdout, stderr, files, wrapped,
                    request, response, exit_code, table >>

\* the same expression applied to its own output
sanitize_again ==
    /\ pc = "sanitized"
    /\ result' = Append(result, sanitize(result[1]))
    /\ pc' = "sanitize_done"
    /\ UNCHANGED << argv, args, params, data, stdout, stderr, files, wrapped,
                    request, response, exit_code, table >>

NextSanitize == sanitize_call \/ sanitize_again

SpecSanitize == InitSanitize /\ [][NextSanitize]_vars

-----------------------------------------------------------------------------
(* Properties of an invocation *)

DataCommands == { Some("spending"), Some("payroll"), Some("settlements"),
                  Some("revenue") }

Exited == pc = "exit"
RanDataCommand == Exited /\ argv.cmd \in DataCommands
FetchSucceeded == RanDataCommand /\ response # None /\ Val(response).kind = "ok"

\* the value the command line gives an option: None when the option is absent
GivenOpt(dest) ==
    LET at == { i \in 1..Len(argv.opts) : argv.opts[i][1] = dest }
    IN  IF at = {} THEN None ELSE argv.opts[SetMax(at)][2]

ActiveStr(dest) == GivenOpt(dest) # None /\ Val(GivenOpt(dest)) # ""
ActiveAmount(dest) == GivenOpt(dest) # None
Like(field, v) == "upper(" \o field \o ") like upper('%" \o v \o "%')"

\* the clauses of the spending mapping, in the order year, department,
\* vendor, fund, min-amount, max-amount, name, search
SpendingClauses ==
    (IF ActiveStr("year")
     THEN << "budget_fiscal_year = '" \o Val(GivenOpt("year")) \o "'" >> ELSE << >>)
    \o (IF ActiveStr("dept") THEN << Like("department", Val(GivenOpt("dept"))) >> ELSE << >>)
    \o (IF ActiveStr("vendor") THEN << Like("vendor", Val(GivenOpt("vendor"))) >> ELSE << >>)
    \o (IF ActiveStr("fund") THEN << Like("fund", Val(GivenOpt("fund"))) >> ELSE << >>)
    \o (IF ActiveAmount("min_amount")
        THEN << "amount >= " \o ToString(Val(GivenOpt("min_amount"))) \o ".0" >> ELSE << >>)
    \o (IF ActiveAmount("max_amount")
        THEN << "amount <= " \o ToString(Val(GivenOpt("max_amount"))) \o ".0" >> ELSE << >>)
    \o (IF ActiveStr("search")
        THEN << "(" \o Like("vendor", Val(GivenOpt("search"))) \o " OR "
                \o Like("department", Val(GivenOpt("search"))) \o ")" >>
        ELSE << >>)

\* C1: on the spending dataset the parameters have a $where key exactly when
\* some filter is active, and $where is then one clause per active filter in
\* the mapping of the query builder, joined by " AND " in the fixed order
\* year, department, vendor, fund, min-amount, max-amount, name, search,
\* whatever order the filters were given in.
C1_WhereClause ==
    (Exited /\ argv.cmd = Some("spending")) =>
        /\ HasKey(params, "$where") <=> SpendingClauses # << >>
        /\ SpendingClauses # << >> =>
               DictGet(params, "$where", "") = Join(" AND ", SpendingClauses)

\* all seven spending filters active and given in the reverse of the fixed order
C1_Witness ==
    /\ Exited /\ argv.cmd = Some("spending")
    /\ Len(SpendingClauses) = 7
    /\ argv.opts[1][1] = "search"
    /\ HasKey(params, "$where")

\* spending with vendor "W. B MASON", year 2024, limit 50 and nothing else
C2_Scenario ==
    /\ Exited /\ argv.cmd = Some("spending")
    /\ args.vendor = Some("W. B MASON") /\ args.year = Some("2024")
    /\ args.limit = 50
    /\ args.offset = None /\ args.dept = None /\ args.fund = None
    /\ args.min_amount = None /\ args.max_amount = None
    /\ args.search = None /\ args.sort = None

\* C2 as stated: the scenario yields $limit "50" and a $where naming the
\* vendor clause before the year clause.
C2_Original ==
    C2_Scenario =>
        params = << <<"$limit", "50">>,
                    <<"$where", "upper(vendor) like upper('%W. B MASON%') AND budget_fiscal_year = '2024'">> >>

\* C2 amended: the scenario yields exactly $limit "50" and a $where naming
\* the year clause before the vendor clause.
C2_Amended ==
    C2_Scenario =>
        params = << <<"$limit", "50">>,
                    <<"$where", "budget_fiscal_year = '2024' AND upper(vendor) like upper('%W. B MASON%')">> >>

\* the scenario with the vendor given before the year on the command line
C2_Witness == C2_Scenario /\ argv.opts[1][1] = "vendor" /\ Len(params) = 2

\* a data command whose fetch succeeded with no records
C3_EmptyResult == FetchSucceeded /\ Val(response).data = << >>

\* C3: after a successful fetch of an empty result, whatever the format,
\* --save-json and --output, the only output is "No results found.": no
\* record-count line, no columns inferred, no renderer run, no file or
\* snapshot written, and the exit status is 0.
C3_NoResults ==
    C3_EmptyResult =>
        /\ stdout = << "No results found." >>
        /\ stderr = << >>
        /\ files = << >>
        /\ wrapped = << >>
        /\ table = NoTable
        /\ result = None
        /\ exit_code = Some(0)

\* an empty result with a snapshot and an output file asked for
C3_Witness ==
    /\ C3_EmptyResult
    /\ args.save_json /\ TruthyStr(args.output) /\ args.format = "csv"
    /\ stdout = << "No results found." >>

DataFetchFailed == RanDataCommand /\ response # None /\ Val(response).kind # "ok"
MetadataFetchFailed ==
    Exited /\ argv.cmd = Some("datasets") /\ response # None /\ ~Val(response).ok
UnknownInfoKey ==
    /\ Exited /\ argv.cmd = Some("datasets")
    /\ TruthyStr(args.info) /\ ~HasKey(DATASETS, Val(args.info))

-----------------------------------------------------------------------------
(* Properties of format_table *)

\* C5: for a non-empty result every column width is at most 40, every cell
\* of every row, sampled or not, present in the record or not, is no longer
\* than the width of its column, and the header cell keeps as much of the
\* label as the width holds.
C5_TableWidths ==
    (pc = "table_done" /\ data # << >>) =>
        /\ Len(table.rows) = Len(data)
        /\ \A j \in 1..Len(table.cols) :
              LET w == table.widths[j]
                  kept == Min(Len(table.cols[j]), w)
              IN  /\ w <= MaxWidth
                  /\ \A i \in 1..Len(data) : Len(table.rows[i][j]) <= w
                  /\ Len(table.header[j]) <= w
                  /\ Len(table.header[j]) >= kept
                  /\ Prefix(table.header[j], kept) = Prefix(table.cols[j], kept)
                  /\ Len(table.cols[j]) <= MaxWidth => kept = Len(table.cols[j])

\* a row beyond the sample holds a value longer than its column's width, and
\* a record lacks one of the columns
C5_Witness ==
    /\ pc = "table_done" /\ Len(data) > SampleRows
    /\ \E j \in 1..Len(table.cols) : \E i \in (SampleRows + 1)..Len(data) :
          Len(get_str(data[i], table.cols[j])) > table.widths[j]
    /\ \E j \in 1..Len(table.cols) : \E i \in 1..Len(data) :
          ~HasKey(data[i], table.cols[j])

-----------------------------------------------------------------------------
(* Properties of format_csv *)

\* A reader of comma-separated text: fields are separated by commas and
\* records by newlines outside quotes; a field that opens with a quote runs
\* to its closing quote, a doubled quote inside it standing for one quote.
\* Each field is returned as written (raw) and as read (text).
EndField(st) ==
    [st EXCEPT !.row = Append(st.row, [raw |-> st.raw, text |-> st.text]),
               !.raw = "", !.text = "", !.mode = "start"]
EndRecord(st) ==
    [EndField(st) EXCEPT !.rows = Append(st.rows, EndField(st).row), !.row = << >>]

CsvStep(st, c) ==
    LET t == [st EXCEPT !.raw = st.raw \o c]
    IN  CASE st.mode = "quoted" ->
               IF c = "\"" THEN [t EXCEPT !.mode = "quote"]
               ELSE [t EXCEPT !.text = st.text \o c]
          [] st.mode = "quote" /\ c = "\"" ->
               [t EXCEPT !.text = st.text \o c, !.mode = "quoted"]
          [] st.mode # "quoted" /\ c = "," -> EndField(st)
          [] st.mode # "quoted" /\ c = "\n" -> EndRecord(st)
          [] st.mode = "start" /\ c = "\"" -> [t EXCEPT !.mode = "quoted"]
          [] OTHER -> [t EXCEPT !.text = st.text \o c, !.mode = "plain"]

RECURSIVE CsvRead(_, _, _)
CsvRead(s, i, st) ==
    IF i > Len(s) THEN EndRecord(st).rows
    ELSE CsvRead(s, i + 1, CsvStep(st, SubSeq(s, i, i)))

ParseCsv(s) ==
    CsvRead(s, 1, [mode |-> "start", raw |-> "", text |-> "", row |-> << >>,
                   rows |-> << >>])

NeedsQuoting(s) == Contains(s, ",") \/ Contains(s, "\"") \/ Contains(s, "\n")

RECURSIVE Doubled(_)
Doubled(s) ==
    IF s = "" THEN ""
    ELSE IF Head(s) = "\"" THEN "\"\"" \o Doubled(Tail(s))
    ELSE Head(s) \o Doubled(Tail(s))

\* C6: every data value is written quoted, with its quotes doubled, exactly
\* when its string form holds a comma, a quote or a newline, and is written
\* as it is otherwise; a value holding a comma or a quote reads back from
\* the text as the original string.
C6_CsvQuoting ==
    (pc = "csv_done" /\ data # << >>) =>
        LET doc == ParseCsv(Val(result))
            cols == DictKeys(data[1])
        IN  /\ Len(doc) = Len(data) + 1
            /\ \A i \in 1..Len(data) :
                  /\ Len(doc[i + 1]) = Len(cols)
                  /\ \A j \in 1..Len(cols) :
                        LET v == get_str(data[i], cols[j])
                            f == doc[i + 1][j]
                        IN  /\ f.raw = IF NeedsQuoting(v)
                                       THEN "\"" \o Doubled(v) \o "\"" ELSE v
                            /\ (Contains(v, ",") \/ Contains(v, "\"")) => f.text = v

\* a value holding both a comma and a quote was written
C6_Witness ==
    /\ pc = "csv_done" /\ result # None
    /\ \E i \in 1..Len(data) : \E j \in 1..Len(data[i]) :
          /\ Contains(Str(data[i][j][2]), ",")
          /\ Contains(Str(data[i][j][2]), "\"")

-----------------------------------------------------------------------------
(* Properties of the filename sanitisation *)

\* C7: sanitising the sanitised value returns it unchanged.
C7_Idempotent ==
    pc = "sanitize_done" => result[2] = result[1]

\* a value longer than 20 characters that lost characters to the
\* substitution, the truncation and the strip
C7_Witness ==
    /\ pc = "sanitize_done"
    /\ Len(Val(args.vendor)) > NameLen
    /\ Contains(Val(args.vendor), "-")
    /\ Len(result[1]) < NameLen /\ Len(result[1]) > 0
    /\ result[2] = result[1]

-----------------------------------------------------------------------------
(* Properties of --url, --save-json and --limit *)

IsSubstring(sub, s) ==
    \E i \in 1..(Len(s) - Len(sub) + 1) : SubSeq(s, i, i + Len(sub) - 1) = sub

\* the dataset the command queries
QueriedId == DatasetId(Val(argv.cmd))
\* its API URL with the RemoteParams of the invocation minus $limit
ExpectedApiUrl == api_url_of(QueriedId, Some(params))
ExpectedPortalUrl == portal_url_of(QueriedId)

NonEmptyResult == FetchSucceeded /\ data # << >>

\* C8: every data command with a non-empty result and --url prints the API
\* URL of the queried dataset, with its parameters minus $limit, and the
\* portal URL of the dataset.
C8_ShowUrl ==
    (NonEmptyResult /\ args.url) =>
        /\ \E i \in 1..Len(stdout) : IsSubstring(ExpectedApiUrl, stdout[i])
        /\ \E i \in 1..Len(stdout) : IsSubstring(ExpectedPortalUrl, stdout[i])

\* C9: every data command with a non-empty result and --save-json writes a
\* snapshot whose api_url is the API URL of the queried dataset with the
\* parameters minus $limit, whose portal_url is the dataset's portal URL,
\* whose record_count is the number of records in data and whose data is
\* the fetched records.
C9_Snapshot ==
    (NonEmptyResult /\ args.save_json) =>
        /\ Len(wrapped) = 1
        /\ wrapped[1].api_url = ExpectedApiUrl
        /\ wrapped[1].portal_url = Some(ExpectedPortalUrl)
        /\ wrapped[1].record_count = Len(wrapped[1].data)
        /\ wrapped[1].data = Val(response).data

Digits == "0123456789"
\* the decimal numeral of a positive integer
PositiveNumeral(s) ==
    /\ Len(s) > 0
    /\ \A i \in 1..Len(s) : Contains(Digits, SubSeq(s, i, i))
    /\ \E i \in 1..Len(s) : SubSeq(s, i, i) # "0"

\* C10: in every invocation of a data command the limit the query builder
\* receives, and the $limit sent to the remote API, is a positive integer.
C10_PositiveLimit ==
    RanDataCommand =>
        /\ args.limit > 0
        /\ PositiveNumeral(DictGet(params, "$limit", ""))

-----------------------------------------------------------------------------
(* Properties of the delivery of the rendered text *)

\* the column list the command hands to the table renderer
CommandColumns ==
    CASE argv.cmd = Some("spending") -> Some(SpendingCols)
      [] argv.cmd = Some("payroll") -> Some(PayrollCols)
      [] OTHER -> None

\* the text the renderer of the chosen format produces for the fetched records
RenderedText == render(Val(response).data, args, CommandColumns)
CountLine == "\n--- " \o ToString(Len(Val(response).data)) \o " records ---"

\* the positions of standard output that hold the text t
PrintedAt(t) == { i \in 1..Len(stdout) : stdout[i] = t }
\* the files other than the snapshot
OutputFiles ==
    { i \in 1..Len(files) : \A k \in 1..Len(wrapped) : files[i][1] # wrapped[k].file }

\* C11: for a non-empty result the rendered text goes to exactly one place,
\* with or without --save-json: with an output path the file holds exactly
\* the rendered text, and neither the text nor a record-count line is
\* printed; without one the text is printed once, followed by the
\* record-count line, and no output file is written.
C11_OneDestination ==
    NonEmptyResult =>
        IF TruthyStr(args.output)
        THEN /\ HasKey(files, Val(args.output))
             /\ DictGet(files, Val(args.output), "") = RenderedText
             /\ PrintedAt(RenderedText) = {}
             /\ PrintedAt(CountLine) = {}
        ELSE /\ Cardinality(PrintedAt(RenderedText)) = 1
             /\ \A i \in PrintedAt(RenderedText) :
                   i < Len(stdout) /\ stdout[i + 1] = CountLine
             /\ OutputFiles = {}
             /\ \A i \in 1..Len(files) : files[i][2] # RenderedText

\* a non-empty result written to an output file while a snapshot is saved
C11_Witness ==
    /\ NonEmptyResult
    /\ TruthyStr(args.output) /\ args.save_json
    /\ Len(files) = 2 /\ Len(wrapped) = 1
    /\ DictGet(files, Val(args.output), "") = RenderedText

=============================================================================
